---- MODULE Spec2Model ----
(***************************************************************************)
(* Model of the estimation orchestrator of the lattice estimator:          *)
(* estimator/lwe.py (Estimate.rough, Estimate.__call__) and                *)
(* estimator/sis.py (Estimate.rough, Estimate.__call__).                   *)
(*                                                                         *)
(* One call runs the pipeline                                              *)
(*   build catalog -> batch_estimate -> assemble -> report -> return.      *)
(* A Python dict is a sequence of <<key, value>> pairs with distinct keys, *)
(* in insertion order.  An attack callable is named by a string; the       *)
(* record it returns carries its rop and, as a ghost field, the callable   *)
(* that produced it.                                                       *)
(***************************************************************************)
EXTENDS Integers, Sequences, FiniteSets, TLC

VARIABLES
    pc,          \* "ready", "batch", "report", "returned", "raised"
    call,        \* the arguments of the call
    algorithms,  \* the catalog: dict name -> callable
    done,        \* indices of the batch tasks that have completed
    produced,    \* callable -> outcome of its evaluation (for those evaluated)
    raw,         \* res_raw[params]: dict identity -> CostRecord, in arrival order
    res,         \* the assembled ResultMapping: dict name -> CostRecord
    printed,     \* the report lines written to standard output so far
    ret,         \* the value returned to the caller
    err,         \* the exception that left the call, "none" if none
    env          \* what the attack-cost collaborators can return in this run

vars == <<pc, call, algorithms, done, produced, raw, res, printed, ret, err, env>>

----------------------------------------------------------------------------
(* Bounds of the model.                                                    *)

\* finite rop values are 1..MaxRop
MaxRop == 2
\* deny_list has at most MaxDeny names
MaxDeny == 1
\* add_list has at most MaxAdd pairs
MaxAdd == 2
\* at most MaxOdd attacks of one batch fail or return rop = oo
MaxOdd == 1
\* LWE dimension n is in 1..MaxN, sample count m in 1..MaxM
MaxN == 2
MaxM == 5
\* jobs is in 1..MaxJobs
MaxJobs == 2

\* sage's +infinity: above every finite rop
oo == MaxRop + 1

----------------------------------------------------------------------------
(* Python dict operations on sequences of <<key, value>> pairs.            *)

Keys(d) == {d[i][1] : i \in DOMAIN d}

Values(d) == [i \in DOMAIN d |-> d[i][2]]

Get(d, k) == d[CHOOSE i \in DOMAIN d : d[i][1] = k][2]

\* d[k] = v: an existing key keeps its position, a new key goes last
Put(d, k, v) ==
    IF k \in Keys(d)
    THEN [i \in DOMAIN d |-> IF d[i][1] = k THEN <<k, v>> ELSE d[i]]
    ELSE Append(d, <<k, v>>)

RECURSIVE Update(_, _)
\* for k, v in pairs: d[k] = v
Update(d, pairs) ==
    IF pairs = <<>> THEN d
    ELSE Put(Update(d, SubSeq(pairs, 1, Len(pairs) - 1)),
             pairs[Len(pairs)][1], pairs[Len(pairs)][2])

Range(s) == {s[i] : i \in DOMAIN s}

RECURSIVE Without(_, _)
\* the dict d without the keys in ks
Without(d, ks) ==
    IF d = <<>> THEN <<>>
    ELSE (IF Head(d)[1] \in ks THEN <<>> ELSE <<Head(d)>>) \o Without(Tail(d), ks)

----------------------------------------------------------------------------
(* The catalogs.                                                           *)

\* faulty variant: Arora-GB already at m = n^2 samples
AroraGBAppliesAtSquare(params) == params.m >= params.n * params.n /\ params.bounded

\* params.m > params.n ** 2 and params.Xe.is_bounded
AroraGBApplies(params) == params.m > params.n * params.n /\ params.bounded

LweRoughCatalog(params) ==
    << <<"usvp", "primal_usvp(ADPS16,gsa)">> >>
    \o (IF params.sparse
        THEN << <<"hybrid", "primal_hybrid(ADPS16,gsa)">> >>
        ELSE <<>>)
    \o (IF params.sparse
        THEN << <<"dual_mitm_hybrid", "dual_hybrid(ADPS16,mitm_optimization=True)">> >>
        ELSE << <<"dual_hybrid", "dual_hybrid(ADPS16,mitm_optimization=False)">> >>)
    \o (IF AroraGBApplies(params)
        THEN (IF params.sparse
              THEN << <<"arora-gb", "guess_composition(arora_gb.cost_bounded)">> >>
              ELSE << <<"arora-gb", "arora_gb.cost_bounded">> >>)
        ELSE <<>>)

LweFullBuiltin ==
    << <<"arora-gb", "guess_composition(arora_gb)">>,
       <<"bkw", "coded_bkw">>,
       <<"usvp", "primal_usvp">>,
       <<"bdd", "primal_bdd">>,
       <<"bdd_hybrid", "primal_hybrid(mitm=False,babai=False)">>,
       <<"bdd_mitm_hybrid", "primal_hybrid(mitm=True,babai=True)">>,
       <<"dual", "dual">>,
       <<"dual_hybrid", "dual_hybrid(mitm_optimization=False)">>,
       <<"dual_mitm_hybrid", "dual_hybrid(mitm_optimization=True)">> >>

SisRoughCatalog == << <<"lattice", "sis_lattice(ADPS16,zgsa)">> >>

SisFullBuiltin == << <<"lattice", "sis_lattice">> >>

\* faulty variant: a deny-list name absent from the catalog is skipped
LweDenyLenient(d, deny) == [ok |-> TRUE, d |-> Without(d, Range(deny))]

\* a name longer than the report's name field
LongName == "a_custom_attack_with_a_long_name"

\* the names the add-list of lwe.estimate is drawn from
LweAddNames == {"hybrid", "dual_mitm_hybrid"}

\* the names the add-list of sis.estimate is drawn from
SisAddNames == {"lattice", LongName}

\* every name a catalog of the model can hold
AllNames ==
    Keys(LweFullBuiltin) \cup Keys(SisFullBuiltin) \cup LweAddNames
    \cup SisAddNames \cup {"hybrid"}

RECURSIVE LweDeny(_, _)
\* for k in deny_list: del algorithms[k]      (KeyError when k is absent)
LweDeny(d, deny) ==
    IF deny = <<>> THEN [ok |-> TRUE, d |-> d]
    ELSE IF Head(deny) \notin Keys(d) THEN [ok |-> FALSE, d |-> d]
    ELSE LweDeny(Without(d, {Head(deny)}), Tail(deny))

\* {k: v for k, v in algorithms.items() if k not in deny_list}
SisDeny(d, deny) ==
    [ok |-> TRUE, d |-> Without(d, Range(deny))]

\* faulty variant: the add-list pairs are merged before the deny-list is applied
LweFullCatalogAddFirst(deny, add) ==
    LET r == LweDeny(Update(LweFullBuiltin, add), deny)
    IN  [ok |-> r.ok, d |-> r.d]

\* build, then remove the deny-list names, then merge the add-list pairs
LweFullCatalog(deny, add) ==
    LET r == LweDeny(LweFullBuiltin, deny)
    IN  [ok |-> r.ok, d |-> IF r.ok THEN Update(r.d, add) ELSE r.d]

SisFullCatalog(deny, add) ==
    LET r == SisDeny(SisFullBuiltin, deny)
    IN  [ok |-> r.ok, d |-> Update(r.d, add)]

----------------------------------------------------------------------------
(* The batch estimator and the identity of a callable (estimator/util.py). *)

\* the stable identity string of a callable
FName(c) == <<"f_name", c>>

\* the record a successful evaluation of callable c returns
CostRecord(c, rop) == [rop |-> rop, by |-> c]

Failure == [failed |-> TRUE, rop |-> 0]

Success(rop) == [failed |-> FALSE, rop |-> rop]

\* the attacks whose finite rop the report compares with another rop; the
\* finite rop of every other attack is only ever compared with oo
Compared ==
    {"primal_bdd", "dual_hybrid(mitm_optimization=False)",
     "dual_hybrid(mitm_optimization=True)", "custom_attack"}

\* the finite rops callable c can return
FiniteRops(c) == IF c \in Compared THEN 1..MaxRop ELSE {MaxRop}

\* algorithms.values(): one task per catalog entry
Tasks == Values(algorithms)

Pending == DOMAIN Tasks \ done

\* tasks are dispatched in order, at most jobs of them at a time: task i is
\* running when fewer than jobs tasks before it are still to complete
InFlight(i) ==
    /\ i \in Pending
    /\ Cardinality({j \in Pending : j < i}) < call.jobs

\* the attacks evaluated so far that failed or returned rop = oo
Odd == {c \in DOMAIN produced : produced[c].failed \/ produced[c].rop = oo}

\* what evaluating callable c may yield; a callable evaluated again on the
\* same parameters yields what it yielded before
Outcomes(c, e) ==
    IF c \in DOMAIN produced THEN {produced[c]}
    ELSE {Success(r) : r \in FiniteRops(c) \cap e.rops}
         \cup (IF Cardinality(Odd) < MaxOdd
               THEN {Failure} \cup (IF e.inf THEN {Success(oo)} ELSE {})
               ELSE {})

----------------------------------------------------------------------------
(* The result assembler.                                                   *)

RECURSIVE Hits(_, _, _)
\* for k, v in res_raw.items(): if f_name(attack) == k: the pair (algorithm, v)
\* (identity is f_name(attack))
Hits(name, identity, rawd) ==
    IF rawd = <<>> THEN <<>>
    ELSE (IF identity = Head(rawd)[1] THEN << <<name, Head(rawd)[2]>> >> ELSE <<>>)
         \o Hits(name, identity, Tail(rawd))

RECURSIVE LwePairs(_, _)
\* for algorithm in algorithms: for k, v in res_raw.items(): ...
\* the (algorithm, v) pairs for which the assignment is executed, in order
LwePairs(algs, rawd) ==
    IF algs = <<>> THEN <<>>
    ELSE Hits(Head(algs)[1], FName(Head(algs)[2]), rawd) \o LwePairs(Tail(algs), rawd)

\* faulty variant: the i-th catalog name takes the i-th record to arrive
LweAssembleByArrival(algs, rawd) ==
    [i \in 1..(IF Len(algs) < Len(rawd) THEN Len(algs) ELSE Len(rawd)) |->
        <<algs[i][1], rawd[i][2]>>]

\* res = {}; res[algorithm] = v for each of the pairs
LweAssemble(algs, rawd) == Update(<<>>, LwePairs(algs, rawd))

RECURSIVE SisPairs(_, _)
\* the (algorithm, v) pairs the comprehension generates, in order
SisPairs(algs, rawd) ==
    IF algs = <<>> THEN <<>>
    ELSE Hits(Head(algs)[1], FName(Head(algs)[2]), rawd) \o SisPairs(Tail(algs), rawd)

\* {algorithm: v for algorithm, attack in algorithms.items()
\*                for k, v in res_raw.items() if f_name(attack) == k}
SisAssemble(algs, rawd) == Update(<<>>, SisPairs(algs, rawd))

----------------------------------------------------------------------------
(* The reporter.                                                           *)

\* the field width of the format specification "20s"
NameWidth == 20

RECURSIVE Spaces(_)
\* n spaces
Spaces(n) ==
    IF n <= 0 THEN ""
    ELSE IF n % 2 = 1 THEN " " \o Spaces(n - 1)
    ELSE Spaces(n \div 2) \o Spaces(n \div 2)

\* faulty variant: the name is not padded
FormatNameUnpadded(name) == name

\* f"{algorithm:20s}"
FormatName(name) == name \o Spaces(NameWidth - Len(name))

\* the formatted field of every name, computed once
FormattedNames == [name \in AllNames |-> FormatName(name)]

\* one printed line; name is what the field was formatted from
Line(name, v) == [name |-> name, field |-> FormattedNames[name], rec |-> v]

\* lwe.rough: what the loop body does with entry (k, v) of res
LweRoughDecision(k, v, r) ==
    IF v.rop = oo THEN "skip" ELSE "print"

\* faulty variant: the test of rop against oo is missing
LweFullDecisionPrintsInfeasible(k, v, r) ==
    IF k = "hybrid" /\ "bdd" \notin Keys(r) THEN "KeyError"
    ELSE IF k = "hybrid" /\ Get(r, "bdd").rop < v.rop THEN "skip"
    ELSE IF k = "dual_mitm_hybrid" /\ "dual_hybrid" \notin Keys(r) THEN "KeyError"
    ELSE IF k = "dual_mitm_hybrid" /\ Get(r, "dual_hybrid").rop < v.rop THEN "skip"
    ELSE "print"

\* lwe.estimate: what the loop body does with entry (k, v) of res
LweFullDecision(k, v, r) ==
    IF v.rop = oo THEN "skip"
    ELSE IF k = "hybrid" /\ "bdd" \notin Keys(r) THEN "KeyError"
    ELSE IF k = "hybrid" /\ Get(r, "bdd").rop < v.rop THEN "skip"
    ELSE IF k = "dual_mitm_hybrid" /\ "dual_hybrid" \notin Keys(r) THEN "KeyError"
    ELSE IF k = "dual_mitm_hybrid" /\ Get(r, "dual_hybrid").rop < v.rop THEN "skip"
    ELSE "print"

\* sis.rough: if result["rop"] != oo: print
SisRoughDecision(k, v, r) ==
    IF v.rop # oo THEN "print" ELSE "skip"

\* sis.estimate: if result["rop"] == oo: continue
SisFullDecision(k, v, r) ==
    IF v.rop = oo THEN "skip" ELSE "print"

Decision(mode, k, v, r) ==
    CASE mode = "lwe.rough"    -> LweRoughDecision(k, v, r)
      [] mode = "lwe.estimate" -> LweFullDecision(k, v, r)
      [] mode = "sis.rough"    -> SisRoughDecision(k, v, r)
      [] mode = "sis.estimate" -> SisFullDecision(k, v, r)

RECURSIVE ReportFrom(_, _, _)
\* for algorithm in algorithms: the entry of res named algorithm, if any;
\* the lines printed from the head of algs on, until the loop ends or raises
ReportFrom(mode, algs, r) ==
    IF algs = <<>> THEN [ok |-> TRUE, lines |-> <<>>]
    ELSE LET name == Head(algs)[1]
             what == IF name \in Keys(r) THEN Decision(mode, name, Get(r, name), r)
                     ELSE "absent"
             rest == ReportFrom(mode, Tail(algs), r)
         IN  IF what = "KeyError" THEN [ok |-> FALSE, lines |-> <<>>]
             ELSE IF what = "print"
                  THEN [ok |-> rest.ok, lines |-> <<Line(name, Get(r, name))>> \o rest.lines]
                  ELSE rest

\* faulty variant: the entries that were not printed are removed from res
ReportReturningPrinted(mode, algs, r) ==
    LET out == ReportFrom(mode, algs, r)
    IN  [ok |-> out.ok, lines |-> out.lines,
         res |-> Without(r, Keys(r) \ {out.lines[i].name : i \in DOMAIN out.lines})]

\* the report loop, then "return res"
Report(mode, algs, r) ==
    LET out == ReportFrom(mode, algs, r)
    IN  [ok |-> out.ok, lines |-> out.lines, res |-> r]

----------------------------------------------------------------------------
(* The inputs of a call.                                                   *)

SeqsUpTo(S, n) == UNION {[1..k -> S] : k \in 0..n}

Params == [sparse : BOOLEAN, bounded : BOOLEAN, n : 1..MaxN, m : 1..MaxM]

\* the parameter set used where the catalog does not depend on it
DefaultParams == [sparse |-> FALSE, bounded |-> FALSE, n |-> 1, m |-> 1]

AddLists(names, n) == SeqsUpTo({<<name, "custom_attack">> : name \in names}, n)

\* a name of the LWE catalog and a name of the SIS catalog
DenyNames == {"dual_mitm_hybrid", "lattice"}

DenyLists(n) == SeqsUpTo(DenyNames, n)

Calls(jobs, maxAdd, maxDeny) ==
    [mode : {"lwe.rough"}, params : Params, deny_list : {<<>>},
     add_list : {<<>>}, jobs : jobs, catch_exceptions : {TRUE}]
    \cup
    [mode : {"lwe.estimate"}, params : {DefaultParams}, deny_list : DenyLists(maxDeny),
     add_list : AddLists(LweAddNames, maxAdd), jobs : jobs, catch_exceptions : {TRUE}]
    \cup
    [mode : {"sis.rough"}, params : {DefaultParams}, deny_list : {<<>>},
     add_list : {<<>>}, jobs : jobs, catch_exceptions : BOOLEAN]
    \cup
    [mode : {"sis.estimate"}, params : {DefaultParams}, deny_list : DenyLists(maxDeny),
     add_list : AddLists(SisAddNames, maxAdd), jobs : jobs, catch_exceptions : BOOLEAN]

----------------------------------------------------------------------------
(* The state machine.                                                      *)

Start(calls, e) ==
    /\ pc = "ready"
    /\ call \in calls
    /\ env = e
    /\ algorithms = <<>>
    /\ done = {}
    /\ produced = <<>>
    /\ raw = <<>>
    /\ res = <<>>
    /\ printed = <<>>
    /\ ret = <<>>
    /\ err = "none"

\* sequential calls, every cost the collaborators can return
Init ==
    Start(Calls({1}, MaxAdd, MaxDeny),
          [rops |-> 1..MaxRop, inf |-> TRUE])

\* parallel calls
InitJobs ==
    Start(Calls(1..MaxJobs, 0, 0),
          [rops |-> {MaxRop}, inf |-> FALSE])

\* the catalog is built: the batch starts, or the construction raised
Built(c) ==
    /\ algorithms' = (IF c.ok THEN c.d ELSE <<>>)
    /\ pc' = (IF c.ok THEN "batch" ELSE "raised")
    /\ err' = (IF c.ok THEN "none" ELSE "KeyError")
    /\ UNCHANGED <<call, done, produced, raw, res, printed, ret, env>>

LweRough ==
    /\ pc = "ready"
    /\ call.mode = "lwe.rough"
    /\ Built([ok |-> TRUE, d |-> LweRoughCatalog(call.params)])

LweEstimate ==
    /\ pc = "ready"
    /\ call.mode = "lwe.estimate"
    /\ Built(LweFullCatalog(call.deny_list, call.add_list))

SisRough ==
    /\ pc = "ready"
    /\ call.mode = "sis.rough"
    /\ Built([ok |-> TRUE, d |-> SisRoughCatalog])

SisEstimate ==
    /\ pc = "ready"
    /\ call.mode = "sis.estimate"
    /\ Built(SisFullCatalog(call.deny_list, call.add_list))

\* a task of the batch completes: its record is stored under its identity,
\* a caught failure is omitted, an uncaught one aborts the batch
Complete(i) ==
    /\ pc = "batch"
    /\ InFlight(i)
    /\ \E o \in Outcomes(Tasks[i], env) :
        /\ produced' = (Tasks[i] :> o) @@ produced
        /\ IF o.failed /\ ~call.catch_exceptions
           THEN /\ pc' = "raised"
                /\ err' = "AttackError"
                /\ UNCHANGED <<done, raw>>
           ELSE /\ done' = done \cup {i}
                /\ raw' = (IF o.failed THEN raw
                           ELSE Put(raw, FName(Tasks[i]), CostRecord(Tasks[i], o.rop)))
                /\ UNCHANGED <<pc, err>>
    /\ UNCHANGED <<call, algorithms, res, printed, ret, env>>

IsLwe == call.mode \in {"lwe.rough", "lwe.estimate"}

\* the batch has returned: res is assembled from its raw output
Assemble ==
    /\ pc = "batch"
    /\ Pending = {}
    /\ res' = (IF IsLwe THEN LweAssemble(algorithms, raw)
               ELSE SisAssemble(algorithms, raw))
    /\ pc' = "report"
    /\ UNCHANGED <<call, algorithms, done, produced, raw, printed, ret, err, env>>

\* the report loop, then return res
ReportAndReturn ==
    /\ pc = "report"
    /\ LET out == Report(call.mode, algorithms, res)
       IN  /\ printed' = out.lines
           /\ pc' = (IF out.ok THEN "returned" ELSE "raised")
           /\ err' = (IF out.ok THEN "none" ELSE "KeyError")
           /\ ret' = (IF out.ok THEN out.res ELSE <<>>)
    /\ UNCHANGED <<call, algorithms, done, produced, raw, res, env>>

Next ==
    \/ LweRough
    \/ LweEstimate
    \/ SisRough
    \/ SisEstimate
    \/ \E i \in DOMAIN algorithms : Complete(i)
    \/ Assemble
    \/ ReportAndReturn

Spec == Init /\ [][Next]_vars

SpecJobs == InitJobs /\ [][Next]_vars

----------------------------------------------------------------------------
(* Properties.                                                             *)

Finished == pc \in {"returned", "raised"}

Full == call.mode \in {"lwe.estimate", "sis.estimate"}

\* the names for which a report line has been printed
PrintedNames == {printed[i].name : i \in DOMAIN printed}

\* the callables whose evaluation failed
FailedCallables == {c \in DOMAIN produced : produced[c].failed}

\* the number of entries of dict d with key k
Count(d, k) == Cardinality({i \in DOMAIN d : d[i][1] = k})

\* the catalog as constructed, before the deny-list and the add-list
Builtin == IF call.mode = "lwe.estimate" THEN LweFullBuiltin ELSE SisFullBuiltin

\* C1: in lwe.estimate, when the assembled results hold bdd and bdd_hybrid
\* with finite rop and bdd's rop is strictly lower, no report line is
\* printed for bdd_hybrid.
C1_BddHybridSuppressed ==
    (/\ call.mode = "lwe.estimate"
     /\ {"bdd", "bdd_hybrid"} \subseteq Keys(res)
     /\ Get(res, "bdd_hybrid").rop < oo
     /\ Get(res, "bdd").rop < Get(res, "bdd_hybrid").rop)
    => "bdd_hybrid" \notin PrintedNames

\* C2: when the batch layer has caught the failure of an attack, the call
\* raises no error and returns a mapping holding exactly the catalog names
\* whose attack did not fail.
C2_CaughtFailureIsSilent ==
    (Finished /\ call.catch_exceptions /\ FailedCallables # {})
    => /\ pc = "returned"
       /\ Keys(ret) = {algorithms[i][1] : i \in
                         {j \in DOMAIN algorithms : algorithms[j][2] \notin FailedCallables}}

\* the deny-list names a name that the constructed catalog does not hold
UnknownDenied == \E i \in DOMAIN call.deny_list : call.deny_list[i] \notin Keys(Builtin)

\* the call failed with a lookup error before any attack was evaluated
FailedAtConstruction ==
    pc = "raised" /\ err = "KeyError" /\ produced = <<>> /\ printed = <<>>

\* C3 as stated: in full mode of both families, a deny-list name that is
\* not in the constructed catalog makes the call fail with a lookup error
\* before any attack is evaluated.
C3_UnknownDenyIsFatal ==
    (Full /\ UnknownDenied /\ pc # "ready") => FailedAtConstruction

\* C3 as amended: in lwe.estimate such a name makes the call fail with a
\* lookup error before any attack is evaluated; in sis.estimate the name is
\* ignored: no lookup error is raised and the catalog holds the built-in
\* names that are not denied together with the add-list names.
C3_UnknownDenyFatalInLweIgnoredInSis ==
    /\ (call.mode = "lwe.estimate" /\ UnknownDenied /\ pc # "ready")
       => FailedAtConstruction
    /\ (call.mode = "sis.estimate" /\ pc # "ready")
       => /\ err # "KeyError"
          /\ Keys(algorithms) =
                (Keys(SisFullBuiltin) \ Range(call.deny_list))
                \cup {call.add_list[i][1] : i \in DOMAIN call.add_list}

C3_Witness ==
    /\ call.mode = "lwe.estimate"
    /\ UnknownDenied
    /\ FailedAtConstruction

\* C4: the mapping returned to the caller is the assembler's output: every
\* catalog name whose identity key is in the raw batch output, with that
\* record, and nothing else; entries with rop = oo and entries that are not
\* printed are in it.
C4_ReturnedIsAssembled ==
    pc = "returned" =>
        /\ ret = res
        /\ Keys(ret) \subseteq Keys(algorithms)
        /\ \A i \in DOMAIN algorithms :
              LET name == algorithms[i][1]
                  key  == FName(algorithms[i][2])
              IN  IF key \in Keys(raw)
                  THEN Count(ret, name) = 1 /\ Get(ret, name) = Get(raw, key)
                  ELSE name \notin Keys(ret)

C4_Witness ==
    /\ pc = "returned"
    /\ call.mode = "lwe.estimate"
    /\ \E i \in DOMAIN ret : ret[i][2].rop = oo
    /\ "dual_mitm_hybrid" \in Keys(ret)
    /\ Get(ret, "dual_mitm_hybrid").rop < oo
    /\ "dual_mitm_hybrid" \notin PrintedNames

RECURSIVE OwnRecords(_)
\* each name of the catalog algs with the record its own callable produced,
\* in catalog order, without the names whose callable failed
OwnRecords(algs) ==
    IF algs = <<>> THEN <<>>
    ELSE (IF produced[Head(algs)[2]].failed THEN <<>>
          ELSE << <<Head(algs)[1],
                    CostRecord(Head(algs)[2], produced[Head(algs)[2]].rop)>> >>)
         \o OwnRecords(Tail(algs))

\* C6: whatever the number of jobs and the order in which the evaluations
\* complete, the returned mapping binds each catalog name to the record of
\* its own callable, which is the mapping a sequential run returns.
C6_ResultIndependentOfArrival ==
    pc = "returned" => ret = OwnRecords(algorithms)

\* two records arrived in the opposite of the catalog order
C6_Witness ==
    /\ pc = "returned"
    /\ call.jobs > 1
    /\ \E i, j \in DOMAIN raw : \E a, b \in DOMAIN algorithms :
          /\ i < j
          /\ a > b
          /\ raw[i][1] = FName(algorithms[a][2])
          /\ raw[j][1] = FName(algorithms[b][2])

\* name X of the constructed catalog is denied and supplied again in add_list
Readded(X) ==
    /\ Full
    /\ X \in Keys(Builtin)
    /\ X \in Range(call.deny_list)
    /\ \E i \in DOMAIN call.add_list : call.add_list[i][1] = X

\* the callable of the last add-list pair named X
LastAdded(X) ==
    call.add_list[CHOOSE i \in DOMAIN call.add_list :
                     /\ call.add_list[i][1] = X
                     /\ \A j \in DOMAIN call.add_list :
                           call.add_list[j][1] = X => j <= i][2]

\* C7 as stated: when X is denied and supplied again with another callable,
\* the final catalog and the returned mapping hold exactly one entry named
\* X, and its record is the add-list callable's.
C7_ReaddedHasOneEntry ==
    \A X \in AllNames :
        (Readded(X) /\ pc = "returned")
        => /\ Count(algorithms, X) = 1
           /\ Count(ret, X) = 1
           /\ Get(ret, X).by = LastAdded(X)

\* C7 as amended: the final catalog holds exactly one entry named X and it
\* is bound to the add-list callable; the assembled mapping, which is the
\* mapping returned, holds an entry named X exactly when the evaluation of
\* that callable succeeded, holds no second one, and the entry is the record
\* that callable produced.
C7_ReaddedBoundToAddList ==
    \A X \in AllNames :
        Readded(X) =>
            /\ pc \in {"batch", "report", "returned"}
               => /\ Count(algorithms, X) = 1
                  /\ Get(algorithms, X) = LastAdded(X)
                  /\ Get(algorithms, X) # Get(Builtin, X)
            /\ pc \in {"report", "returned"}
               => /\ Count(res, X) <= 1
                  /\ X \in Keys(res) <=> ~produced[LastAdded(X)].failed
                  /\ X \in Keys(res)
                     => Get(res, X) = CostRecord(LastAdded(X), produced[LastAdded(X)].rop)
            /\ pc = "returned" => ret = res

C7_Witness ==
    /\ pc = "returned"
    /\ call.mode = "lwe.estimate"
    /\ Readded("dual_mitm_hybrid")
    /\ "dual_mitm_hybrid" \in Keys(ret)

\* C8: the names lwe.rough returns obey the selection rule: hybrid and
\* dual_mitm_hybrid only for a sparse secret, dual_hybrid only for a secret
\* that is not sparse, never both dual variants, arora-gb only for m > n^2
\* and a bounded error; for a secret that is not sparse dual_hybrid is
\* there unless its evaluation failed.
C8_RoughSelectionRule ==
    (call.mode = "lwe.rough" /\ pc = "returned") =>
        LET p == call.params
            K == Keys(ret)
            dual_hybrid_attack == "dual_hybrid(ADPS16,mitm_optimization=False)"
        IN  /\ "hybrid" \in K => p.sparse
            /\ "dual_mitm_hybrid" \in K => p.sparse
            /\ "dual_hybrid" \in K => ~p.sparse
            /\ ~({"dual_hybrid", "dual_mitm_hybrid"} \subseteq K)
            /\ "arora-gb" \in K => (p.m > p.n * p.n /\ p.bounded)
            /\ ~p.sparse =>
                  \/ "dual_hybrid" \in K
                  \/ /\ dual_hybrid_attack \in DOMAIN produced
                     /\ produced[dual_hybrid_attack].failed

C8_Witness ==
    /\ call.mode = "lwe.rough"
    /\ pc = "returned"
    /\ ~call.params.sparse
    /\ {"dual_hybrid", "arora-gb"} \subseteq Keys(ret)

\* C9: in lwe.estimate, when the assembled results hold dual_hybrid and
\* dual_mitm_hybrid with finite rop, the report omits dual_mitm_hybrid if
\* and only if dual_hybrid's rop is strictly lower.
C9_DualMitmOmittedIffDominated ==
    (/\ call.mode = "lwe.estimate"
     /\ Finished
     /\ {"dual_hybrid", "dual_mitm_hybrid"} \subseteq Keys(res)
     /\ Get(res, "dual_hybrid").rop < oo
     /\ Get(res, "dual_mitm_hybrid").rop < oo)
    => ("dual_mitm_hybrid" \notin PrintedNames
        <=> Get(res, "dual_hybrid").rop < Get(res, "dual_mitm_hybrid").rop)

\* C10 as stated: the name field of every report line has one fixed width.
C10_NameFieldHasFixedWidth ==
    \A i \in DOMAIN printed : Len(printed[i].field) = NameWidth

\* C10 as amended: the name field of every report line is the name padded
\* to the fixed width when it is shorter and the whole name, never
\* truncated, when it is longer.
C10_NameFieldPaddedNeverTruncated ==
    \A i \in DOMAIN printed :
        LET name == printed[i].name
        IN  /\ Len(name) <= NameWidth => Len(printed[i].field) = NameWidth
            /\ Len(name) >= NameWidth => printed[i].field = name

C10_Witness ==
    /\ pc = "returned"
    /\ Len(printed) >= 2
    /\ \E i \in DOMAIN printed : Len(printed[i].name) > NameWidth
    /\ \E i \in DOMAIN printed : Len(printed[i].name) < NameWidth

====
